---- MODULE Spec2Model ----
(***************************************************************************)
(* pwatx/html2pdf: the table-of-contents pipeline.                         *)
(*   toc_parser.py    parse the navigation menu, flatten and number it,    *)
(*                    validate it against the files on disk, write the     *)
(*                    bookmark text file                                   *)
(*   add_bookmarks.py re-parse the bookmark text file                      *)
(* Text (titles, hrefs, paths, the bookmark file) is a sequence of         *)
(* characters, each character a one-element string; "DI" and "YE" stand    *)
(* for the two CJK characters of the page suffix, U+7B2C and U+9875.       *)
(***************************************************************************)
EXTENDS Integers, Sequences, FiniteSets, TLC

VARIABLES pc, args, dom, fs, result, validation, structure_validation,
          gen_toc, bookmarks_file, exit_code, bookmarks, pdf, writer

vars == <<pc, args, dom, fs, result, validation, structure_validation,
          gen_toc, bookmarks_file, exit_code, bookmarks, pdf, writer>>

(***************************************************************************)
(* Bounds of the model.                                                    *)
(***************************************************************************)
\* top-level <li> elements of the menu list
MaxTop == 2
\* <li> elements of a nested list
MaxKids == 2

\* the most pages of a PDF file
MaxPages == 3

\* the most entries of a bookmark file read by add_bookmarks.py alone
MaxMarks == 2

(***************************************************************************)
(* Python str / int / list primitives, on sequences of characters.         *)
(***************************************************************************)
Digits == <<"0", "1", "2", "3", "4", "5", "6", "7", "8", "9">>

IsDigit(c) == \E d \in 1..10 : Digits[d] = c

\* the characters Python's str.strip() and the regex class \s remove/match
IsSpace(c) == c \in {" ", "\n", "\t"}

DigitValue(c) == (CHOOSE d \in 1..10 : Digits[d] = c) - 1

RECURSIVE Str(_)
\* str(n) of a non-negative int: its decimal digits
Str(n) == IF n < 10 THEN <<Digits[n + 1]>>
          ELSE Str(n \div 10) \o <<Digits[(n % 10) + 1]>>

RECURSIVE IntOf(_)
\* int(s) of a non-empty string of decimal digits
IntOf(s) == IF Len(s) = 1 THEN DigitValue(s[1])
            ELSE 10 * IntOf(SubSeq(s, 1, Len(s) - 1)) + DigitValue(s[Len(s)])

\* s.count(c) for a single character c
CountChar(s, c) == Cardinality({i \in 1..Len(s) : s[i] = c})

\* c in s for a single character c
HasChar(s, c) == \E i \in 1..Len(s) : s[i] = c

RECURSIVE Repeat(_, _)
\* s * n
Repeat(s, n) == IF n <= 0 THEN <<>> ELSE s \o Repeat(s, n - 1)

\* s.endswith(suffix)
EndsWith(s, suffix) ==
    /\ Len(s) >= Len(suffix)
    /\ SubSeq(s, Len(s) - Len(suffix) + 1, Len(s)) = suffix

\* s.startswith(prefix)
StartsWith(s, prefix) ==
    /\ Len(s) >= Len(prefix)
    /\ SubSeq(s, 1, Len(prefix)) = prefix

\* s.strip(): leading and trailing whitespace removed
Strip(s) ==
    LET keep == {i \in 1..Len(s) : ~IsSpace(s[i])}
    IN  IF keep = {} THEN <<>>
        ELSE SubSeq(s, CHOOSE i \in keep : \A j \in keep : i <= j,
                       CHOOSE i \in keep : \A j \in keep : i >= j)

RECURSIVE JoinWith(_, _)
\* sep.join(parts)
JoinWith(sep, parts) ==
    IF parts = <<>> THEN <<>>
    ELSE IF Len(parts) = 1 THEN parts[1]
    ELSE parts[1] \o sep \o JoinWith(sep, Tail(parts))

\* chr(10)
NL == <<"\n">>

DotHtml == <<".", "h", "t", "m", "l">>

(***************************************************************************)
(* pathlib.Path on relative POSIX paths.                                   *)
(***************************************************************************)
\* index of the last "/" of p, 0 when there is none
LastSlash(p) ==
    LET at == {i \in 1..Len(p) : p[i] = "/"}
    IN  IF at = {} THEN 0 ELSE CHOOSE i \in at : \A j \in at : i >= j

\* Path(p).name: the final path component
PathName(p) == SubSeq(p, LastSlash(p) + 1, Len(p))

\* Path(p).parent, "" for a bare name
PathParent(p) == SubSeq(p, 1, LastSlash(p) - 1)

\* Path(p).stem: the final component without its last suffix
PathStem(p) ==
    LET name == PathName(p)
        dots == {i \in 1..Len(name) : name[i] = "."}
        i    == IF dots = {} THEN 0 ELSE CHOOSE d \in dots : \A e \in dots : d >= e
    IN  IF 1 < i /\ i < Len(name) THEN SubSeq(name, 1, i - 1) ELSE name

\* base / rel for a relative rel
PathJoin(base, rel) == base \o <<"/">> \o rel

\* os.path.join(os.getcwd(), 'src'): the source root
SrcDir == <<"s", "r", "c">>

(***************************************************************************)
(* The navigation menu as BeautifulSoup presents it.  An <li> is what the  *)
(* extractor's three find() calls return on it: the first anchor carrying  *)
(* an href, that anchor's span.menu-list-title, and the first nested <ul>. *)
(***************************************************************************)
Li(hasA, href, hasSpan, text, hasUl, ul) ==
    [hasA |-> hasA, href |-> href, hasSpan |-> hasSpan, text |-> text,
     hasUl |-> hasUl, ul |-> ul]

Lower == <<"a", "b", "c", "d", "e", "f">>
Upper == <<"A", "B", "C", "D", "E", "F">>

\* a chapter whose k subsections live in the chapter's own subdirectory;
\* the subsection titles carry the whitespace of the page source
ChapterLi(i, k) ==
    Li(TRUE, <<Lower[i]>> \o DotHtml, TRUE, <<Upper[i]>>, k > 0,
       [j \in 1..k |->
           Li(TRUE, <<Lower[i], "/">> \o Str(j) \o DotHtml, TRUE,
              <<" ", Upper[i]>> \o Str(j) \o NL, FALSE, <<>>)])

\* a chapter whose subsections are referenced by bare file names, the first
\* of them with a nested list of its own
DeepLi(i) ==
    Li(TRUE, <<Lower[i]>> \o DotHtml, TRUE, <<Upper[i]>>, TRUE,
       [j \in 1..MaxKids |->
           Li(TRUE, Str(j) \o DotHtml, TRUE, <<Upper[i]>> \o Str(j), j = 1,
              IF j = 1
              THEN <<Li(TRUE, Str(j) \o <<"/", "x">> \o DotHtml, TRUE,
                        <<Upper[i]>> \o Str(j) \o <<"x">>, FALSE, <<>>)>>
              ELSE <<>>)])

\* a chapter page kept in a directory of its own, with one subsection
NestedLi(i) ==
    Li(TRUE, <<"d", "/", Lower[i]>> \o DotHtml, TRUE, <<Upper[i]>>, TRUE,
       <<Li(TRUE, <<"d", "/", Lower[i], "/", "1">> \o DotHtml, TRUE,
            <<Upper[i], "1">>, FALSE, <<>>)>>)

\* an item that is no navigation entry: no anchor, or an anchor to something
\* that is not a page
NoLinkLi(i) ==
    Li(i % 2 = 0, <<"#">>, TRUE, <<Upper[i]>>, FALSE, <<>>)

\* an anchor to a page, without the title span
NoTitleLi(i) ==
    Li(TRUE, <<Lower[i]>> \o DotHtml, FALSE, <<>>, FALSE, <<>>)

LiOptions(i) ==
    {ChapterLi(i, k) : k \in 0..MaxKids}
        \cup {DeepLi(i), NestedLi(i), NoLinkLi(i), NoTitleLi(i)}

RECURSIVE MenuListsOfLen(_)
MenuListsOfLen(n) ==
    IF n = 0 THEN {<<>>}
    ELSE {Append(s, li) : s \in MenuListsOfLen(n - 1), li \in LiOptions(n)}

MenuLists == UNION {MenuListsOfLen(n) : n \in 0..MaxTop}

\* src/index.html: absent, without aside.menu, without a <ul>, or a menu
Dom(readable, hasMenu, hasList, main_ul) ==
    [readable |-> readable, hasMenu |-> hasMenu, hasList |-> hasList,
     main_ul |-> main_ul]

Doms ==
    {Dom(FALSE, FALSE, FALSE, <<>>), Dom(TRUE, FALSE, FALSE, <<>>),
     Dom(TRUE, TRUE, FALSE, <<>>)}
        \cup {Dom(TRUE, TRUE, TRUE, s) : s \in MenuLists}

(***************************************************************************)
(* TOCParser._parse_hierarchical_structure                                 *)
(***************************************************************************)
\* the level every extracted item is given
ItemLevel(li) == 1

\* the nested list read one level only: its items get no children
ParseHierarchicalStructure_mut(main_ul) ==
    LET leaf(li, kids) == [href |-> li.href,
                           title |-> Strip(li.text),
                           level |-> ItemLevel(li),
                           children |-> kids,
                           is_folder |-> Len(kids) > 0]
        nav(ul) == SelectSeq(ul, LAMBDA li :
                        li.hasA /\ EndsWith(li.href, DotHtml) /\ li.hasSpan)
    IN  [k \in 1..Len(nav(main_ul)) |->
            leaf(nav(main_ul)[k],
                 [j \in 1..Len(nav(nav(main_ul)[k].ul)) |->
                     leaf(nav(nav(main_ul)[k].ul)[j], <<>>)])]

RECURSIVE ParseHierarchicalStructure(_)
ParseHierarchicalStructure(main_ul) ==
    IF main_ul = <<>> THEN <<>>
    ELSE
        LET li   == Head(main_ul)
            rest == ParseHierarchicalStructure(Tail(main_ul))
        IN  IF li.hasA /\ EndsWith(li.href, DotHtml) /\ li.hasSpan
            THEN
                LET children == IF li.hasUl
                                THEN ParseHierarchicalStructure(li.ul)
                                ELSE <<>>
                IN  <<[href |-> li.href,
                       title |-> Strip(li.text),
                       level |-> ItemLevel(li),
                       children |-> children,
                       is_folder |-> Len(children) > 0]>> \o rest
            ELSE rest

(***************************************************************************)
(* TOCParser._flatten_hierarchy                                            *)
(***************************************************************************)
\* the position counted from 0
FlatIndex_mut(flat) == Len(flat)

\* 'index': len(flat) + 1
FlatIndex(flat) == Len(flat) + 1

\* the display index of the i-th child (i counted from 0, as enumerate does)
ChildDisplayIndex(display_index, i) == display_index \o <<".">> \o Str(i + 1)

\* the counter advanced once per emitted entry
NextIndexCounter_mut(index_counter, item) ==
    index_counter + 1 + Len(item.children)

\* index_counter += 1, once per item of the top-level loop
NextIndexCounter(index_counter, item) == index_counter + 1

RECURSIVE FlattenChildren(_, _, _, _)
\* the inner loop: for i, child in enumerate(item['children'])
FlattenChildren(children, i, display_index, flat) ==
    IF i >= Len(children) THEN flat
    ELSE
        LET child == children[i + 1]
        IN  FlattenChildren(children, i + 1, display_index,
                Append(flat,
                    [href |-> child.href,
                     title |-> child.title,
                     level |-> child.level,
                     index |-> FlatIndex(flat),
                     display_index |-> ChildDisplayIndex(display_index, i),
                     has_children |-> FALSE]))

RECURSIVE FlattenItems(_, _, _)
\* flatten_items: the loop over the top-level items
FlattenItems(items, index_counter, flat) ==
    IF items = <<>> THEN flat
    ELSE
        LET item          == Head(items)
            display_index == Str(index_counter)
            flat1 == Append(flat,
                        [href |-> item.href,
                         title |-> item.title,
                         level |-> item.level,
                         index |-> FlatIndex(flat),
                         display_index |-> display_index,
                         has_children |-> Len(item.children) > 0])
            flat2 == IF item.children # <<>>
                     THEN FlattenChildren(item.children, 0, display_index, flat1)
                     ELSE flat1
        IN  FlattenItems(Tail(items), NextIndexCounter(index_counter, item), flat2)

FlattenHierarchy(hierarchical) == FlattenItems(hierarchical, 1, <<>>)

\* TOCParser.parse_toc on a document that has the menu and its list
ParseToc(d) ==
    LET hierarchical_toc == ParseHierarchicalStructure(d.main_ul)
        flat_toc         == FlattenHierarchy(hierarchical_toc)
    IN  [hierarchical |-> hierarchical_toc,
         flat |-> flat_toc,
         total_items |-> Len(flat_toc)]

(***************************************************************************)
(* The source directory: the set of regular files and the set of           *)
(* directories below (and including) src.                                  *)
(***************************************************************************)
\* every proper ancestor directory of path p
Ancestors(p) == {SubSeq(p, 1, i - 1) : i \in {k \in 1..Len(p) : p[k] = "/"}}

FsOf(files) == [files |-> files, dirs |-> {SrcDir} \cup UNION {Ancestors(p) : p \in files}]

\* Path.exists()
Exists(f, p) == p \in f.files \cup f.dirs

\* Path.is_dir()
IsDir(f, p) == p \in f.dirs

\* Path(dir).glob('*' + suffix): the entries directly in dir whose name ends so
Glob(f, dir, suffix) ==
    {p \in f.files \cup f.dirs : PathParent(p) = dir /\ EndsWith(PathName(p), suffix)}

IndexHtml == <<"i", "n", "d", "e", "x">> \o DotHtml

RECURSIVE TreeHrefs(_)
\* every href of a tree, at every depth
TreeHrefs(items) ==
    IF items = <<>> THEN {}
    ELSE {Head(items).href} \cup TreeHrefs(Head(items).children)
            \cup TreeHrefs(Tail(items))

FsVariants == {"exact", "extra", "index", "inside", "missing", "empty", "asfile"}

\* a snapshot of src/ for a menu:
\*   exact    the pages the menu references, and nothing else
\*   extra    also a page z.html in the directory named after each chapter
\*            and after each subsection
\*   index    also an index.html in the directory named after each chapter
\*   inside   also each subsection's file name inside its chapter's directory
\*   missing  without the first chapter's page
\*   empty    no page at all
\*   asfile   also a regular file named after each chapter that has no
\*            directory
Snapshot(tree, variant) ==
    LET top    == {tree[i] : i \in 1..Len(tree)}
        second == UNION {{t.children[j] : j \in 1..Len(t.children)} : t \in top}
        exact  == {PathJoin(SrcDir, h) : h \in TreeHrefs(tree)}
        under(n) == PathJoin(SrcDir, PathStem(n.href))
        files ==
            CASE variant = "exact" -> exact
              [] variant = "extra" ->
                    exact \cup {PathJoin(under(n), <<"z">> \o DotHtml) :
                                    n \in top \cup second}
              [] variant = "index" ->
                    exact \cup {PathJoin(under(n), IndexHtml) : n \in top}
              [] variant = "inside" ->
                    exact \cup UNION {{PathJoin(under(t), PathName(t.children[j].href)) :
                                        j \in 1..Len(t.children)} : t \in top}
              [] variant = "missing" ->
                    IF tree = <<>> THEN exact
                    ELSE exact \ {PathJoin(SrcDir, tree[1].href)}
              [] variant = "empty" -> {}
              [] variant = "asfile" ->
                    exact \cup {under(n) : n \in {t \in top :
                                    under(t) \notin FsOf(exact).dirs}}
    IN  FsOf(files \cup {PathJoin(SrcDir, IndexHtml)})

(***************************************************************************)
(* TOCParser.validate_toc_files                                            *)
(***************************************************************************)
\* whether the page a flat entry references is on disk
FileExists(f, item) == Exists(f, PathJoin(SrcDir, item.href))

ValidateTocFiles(flat_toc, f) ==
    LET valid_files   == SelectSeq(flat_toc, LAMBDA item : FileExists(f, item))
        missing_items == SelectSeq(flat_toc, LAMBDA item : ~FileExists(f, item))
        missing_files == [i \in 1..Len(missing_items) |->
                            [item |-> missing_items[i],
                             file_path |-> PathJoin(SrcDir, missing_items[i].href)]]
    IN  [valid_files |-> valid_files,
         missing_files |-> missing_files,
         total_valid |-> Len(valid_files),
         total_missing |-> Len(missing_files)]

(***************************************************************************)
(* Iteration order of a Python set of strings: fixed by the process's      *)
(* string-hash seed, not by the program.  Two seeds are modelled, giving   *)
(* ascending and descending order.                                         *)
(***************************************************************************)
HashSeeds == {"asc", "desc"}

Alphabet == <<"\n", "\t", " ", "#", "(", ")", ",", ".", "/", "0", "1", "2", "3", "4",
              "5", "6", "7", "8", "9", "A", "B", "C", "D", "E", "F", "DI", "YE",
              "a", "b", "c", "d", "e", "f", "h", "i", "l", "m", "n", "r", "s",
              "t", "x", "z">>

CharRank(c) == CHOOSE i \in 1..Len(Alphabet) : Alphabet[i] = c

RECURSIVE LexLess(_, _)
LexLess(a, b) ==
    IF b = <<>> THEN FALSE
    ELSE IF a = <<>> THEN TRUE
    ELSE IF a[1] = b[1] THEN LexLess(Tail(a), Tail(b))
    ELSE CharRank(a[1]) < CharRank(b[1])

RECURSIVE SetOrder(_, _)
\* list(S): the elements of S in the iteration order the seed gives
SetOrder(S, seed) ==
    IF S = {} THEN <<>>
    ELSE
        LET first == CHOOSE x \in S : \A y \in S \ {x} :
                        IF seed = "asc" THEN LexLess(x, y) ELSE LexLess(y, x)
        IN  <<first>> \o SetOrder(S \ {first}, seed)

(***************************************************************************)
(* TOCParser.validate_directory_structure                                  *)
(***************************************************************************)
\* the subdirectory a chapter's subsections are expected in
ExpectedDir(href) == PathJoin(SrcDir, PathStem(href))

\* the levels whose items are compared with the disk
LevelChecked(level) == level = 1

\* every *.html entry of the directory, index.html included
DirHtmlFiles_mut(f, expected_dir) == Glob(f, expected_dir, DotHtml)

\* the *.html entries of the directory, its index.html left out
DirHtmlFiles(f, expected_dir) ==
    {p \in Glob(f, expected_dir, DotHtml) : PathName(p) # IndexHtml}

\* len(html_children) != len(dir_html_files)
CountMismatch(html_count, dir_count) == html_count # dir_count

\* set(child['href'] for child in html_children)
HtmlFileNames(html_children) ==
    {html_children[i].href : i \in 1..Len(html_children)}

\* the warnings of one item of the loop, before its children are visited
ItemWarnings(item, f, level, seed) ==
    LET base_name      == PathStem(item.href)
        expected_dir   == ExpectedDir(item.href)
        html_children  == item.children
        dir_html_files == DirHtmlFiles(f, expected_dir)
        dir_file_names == {PathName(p) : p \in dir_html_files}
        missing_in_html == dir_file_names \ HtmlFileNames(html_children)
        listed         == SetOrder(missing_in_html, seed)
    IN  IF LevelChecked(level) /\ Exists(f, expected_dir) /\ IsDir(f, expected_dir)
        THEN
            (IF CountMismatch(Len(html_children), Cardinality(dir_html_files))
             THEN <<[type |-> "mismatch_count",
                     chapter |-> item.title,
                     html_count |-> Len(html_children),
                     dir_count |-> Cardinality(dir_html_files),
                     message |-> <<item.title, Str(Len(html_children)),
                                   Str(Cardinality(dir_html_files))>>]>>
             ELSE <<>>)
            \o
            (IF missing_in_html # {}
             THEN <<[type |-> "missing_in_html",
                     chapter |-> item.title,
                     missing_files |-> listed,
                     message |-> <<base_name, JoinWith(<<",", " ">>, listed)>>]>>
             ELSE <<>>)
        ELSE <<>>

RECURSIVE StructureWarnings(_, _, _, _)
\* the warnings list the loop over hierarchical_toc builds
StructureWarnings(hierarchical_toc, f, level, seed) ==
    IF hierarchical_toc = <<>> THEN <<>>
    ELSE
        LET item == Head(hierarchical_toc)
        IN  ItemWarnings(item, f, level, seed)
            \o (IF item.children # <<>>
                THEN StructureWarnings(item.children, f, level + 1, seed)
                ELSE <<>>)
            \o StructureWarnings(Tail(hierarchical_toc), f, level, seed)

\* an error for every chapter that has subsections and no directory of its own
StructureErrors_mut(hierarchical_toc, f, level) ==
    SelectSeq(hierarchical_toc,
              LAMBDA item : /\ item.children # <<>>
                            /\ ~Exists(f, ExpectedDir(item.href)))

RECURSIVE StructureErrors(_, _, _)
\* the errors list: nothing is appended but the children's errors
StructureErrors(hierarchical_toc, f, level) ==
    IF hierarchical_toc = <<>> THEN <<>>
    ELSE
        LET item == Head(hierarchical_toc)
        IN  (IF item.children # <<>>
             THEN StructureErrors(item.children, f, level + 1)
             ELSE <<>>)
            \o StructureErrors(Tail(hierarchical_toc), f, level)

ValidateDirectoryStructure(hierarchical_toc, f, level, seed) ==
    LET warnings == StructureWarnings(hierarchical_toc, f, level, seed)
        errors   == StructureErrors(hierarchical_toc, f, level)
    IN  [warnings |-> warnings,
         errors |-> errors,
         total_warnings |-> Len(warnings),
         total_errors |-> Len(errors)]

(***************************************************************************)
(* TOCParser.generate_bookmarks_file                                       *)
(***************************************************************************)
\* --page-map: absent, or a JSON object from titles to 0-based page indices
NoPageMap == [present |-> FALSE, map |-> <<>>]

PageMapOf(m) == [present |-> TRUE, map |-> m]

\* page_map and item['title'] in page_map
InPageMap(page_map, title) ==
    /\ page_map.present
    /\ DOMAIN page_map.map # {}
    /\ title \in DOMAIN page_map.map

\* '    ' * display_index.count('.'), nothing for a main chapter
Indent(display_index) ==
    IF HasChar(display_index, ".")
    THEN Repeat(<<" ", " ", " ", " ">>, CountChar(display_index, "."))
    ELSE <<>>

\* the mapped 0-based page index taken as the page number
ActualPage_mut(item, page_map) ==
    IF InPageMap(page_map, item.title)
    THEN page_map.map[item.title]
    ELSE 2 + item.index

\* the page number of an entry: the mapped page, or an estimate
ActualPage(item, page_map) ==
    IF InPageMap(page_map, item.title)
    THEN page_map.map[item.title] + 1
    ELSE 2 + item.index

\* the separator of generate_bookmark_text: a dot on every line
IndexSeparator_mut(display_index) == <<".">>

\* what stands between the display index and the title
IndexSeparator(display_index) ==
    IF ~HasChar(display_index, ".") THEN <<".">> ELSE <<" ">>

PageSuffix(page) == <<"(", "DI">> \o Str(page) \o <<"YE", ")">>

BookmarkLine(item, page_map) ==
    Indent(item.display_index) \o item.display_index
        \o IndexSeparator(item.display_index) \o item.title
        \o PageSuffix(ActualPage(item, page_map))

\* the text written to the bookmark file
GenerateBookmarksFile(flat_toc, page_map) ==
    JoinWith(NL, [i \in 1..Len(flat_toc) |-> BookmarkLine(flat_toc[i], page_map)])

(***************************************************************************)
(* add_bookmarks.parse_bookmarks: re.findall of                            *)
(*     (\d+)\.\s+(.+?)\s+\(DI(\d+)YE\)                                     *)
(* over the file's text.                                                   *)
(***************************************************************************)
\* the last index of the run of digits (\d) that starts at s; s - 1 when
\* the run is empty
DigitRunEnd(c, s) ==
    LET stop == {i \in s..Len(c) : ~IsDigit(c[i])}
    IN  IF s > Len(c) THEN s - 1
        ELSE IF stop = {} THEN Len(c)
        ELSE (CHOOSE i \in stop : \A j \in stop : i <= j) - 1

\* the same for the run of whitespace (\s)
SpaceRunEnd(c, s) ==
    LET stop == {i \in s..Len(c) : ~IsSpace(c[i])}
    IN  IF s > Len(c) THEN s - 1
        ELSE IF stop = {} THEN Len(c)
        ELSE (CHOOSE i \in stop : \A j \in stop : i <= j) - 1

CharAt(c, i) == IF i >= 1 /\ i <= Len(c) THEN c[i] ELSE "EOF"

\* \s+\(DI(\d+)YE\) from index b + 1 on: the index of the closing bracket,
\* 0 when it does not match
TailEnd(c, b) ==
    LET w == SpaceRunEnd(c, b + 1)
        d == DigitRunEnd(c, w + 3)
    IN  IF /\ w >= b + 1
           /\ CharAt(c, w + 1) = "("
           /\ CharAt(c, w + 2) = "DI"
           /\ d >= w + 3
           /\ CharAt(c, d + 1) = "YE"
           /\ CharAt(c, d + 2) = ")"
        THEN d + 2
        ELSE 0

\* the match with the title at c[a..b], the leading number ending at e1
MatchRecord(c, s, e1, a, b, w) ==
    [index |-> SubSeq(c, s, e1),
     title |-> SubSeq(c, a, b),
     page_num |-> SubSeq(c, w + 3, TailEnd(c, b) - 2),
     end |-> TailEnd(c, b)]

\* of the candidate titles c[a..b], the regex engine's choice: \s+ is greedy
\* (the largest a), then .+? is lazy (the smallest b)
PreferredTitle(cand) ==
    CHOOSE ab \in cand : \A o \in cand :
        \/ ab[1] > o[1]
        \/ ab[1] = o[1] /\ ab[2] <= o[2]

\* the titles c[a..b] that leave a match: a follows the number, its dot and
\* at least one whitespace character; the title holds no newline
TitleCandidates(c, e1, w1) ==
    {ab \in ((e1 + 3)..(w1 + 1)) \X (1..Len(c)) :
        /\ ab[2] >= ab[1]
        /\ \A i \in ab[1]..ab[2] : c[i] # "\n"
        /\ TailEnd(c, ab[2]) # 0}

MatchWith(c, s, e1, cand) ==
    IF e1 >= s /\ CharAt(c, e1 + 1) = "." /\ cand # {}
    THEN <<MatchRecord(c, s, e1, PreferredTitle(cand)[1], PreferredTitle(cand)[2],
                       SpaceRunEnd(c, PreferredTitle(cand)[2] + 1))>>
    ELSE <<>>

MatchFrom(c, s, e1) ==
    MatchWith(c, s, e1, TitleCandidates(c, e1, SpaceRunEnd(c, e1 + 2)))

\* the match of the pattern starting at index s: <<>> when there is none,
\* else <<the match>>
MatchAt(c, s) == MatchFrom(c, s, DigitRunEnd(c, s))

RECURSIVE Collect(_, _)
\* the leftmost matches from index pos on, none overlapping; tbl[s] is the
\* match starting at s
Collect(tbl, pos) ==
    IF pos > Len(tbl) THEN <<>>
    ELSE IF tbl[pos] = <<>> THEN Collect(tbl, pos + 1)
    ELSE tbl[pos] \o Collect(tbl, tbl[pos][1].end + 1)

\* re.findall(pattern, content)
FindAll(c) == Collect([s \in 1..Len(c) |-> MatchAt(c, s)], 1)

\* the loop over the matches: int(index), title.strip(), int(page_num)
ToBookmarks(matches) ==
    [k \in 1..Len(matches) |->
        [index |-> IntOf(matches[k].index),
         title |-> Strip(matches[k].title),
         page  |-> IntOf(matches[k].page_num)]]

\* the bookmarks list parse_bookmarks returns for the text of a file
ParseBookmarks(content) == ToBookmarks(FindAll(content))

(***************************************************************************)
(* add_bookmarks.add_bookmarks_to_pdf.  A PDF file is the number of its    *)
(* pages; a page is named by its zero-based position in the original.      *)
(* The writer records its pages, its outline and the order of the calls    *)
(* made on it.                                                             *)
(***************************************************************************)
NoPdf == [exists |-> FALSE, valid |-> FALSE, pages |-> 0]

NoWriter ==
    [success |-> FALSE, pages |-> <<>>, outline |-> <<>>, calls |-> <<>>,
     saved |-> FALSE]

\* reader.pages
ReaderPages(pdf_file) == [i \in 1..pdf_file.pages |-> i - 1]

\* writer.add_outline_item(title=..., page_number=...): no parent is passed
OutlineItem(title, page_number) ==
    [title |-> title, page_number |-> page_number, parent |-> "None"]

\* the two fixed entries: the cover and the table of contents
CoverItem == OutlineItem(<<"FENG", "MIAN">>, 0)

TocItem == OutlineItem(<<"MU", "LU">>, 1)

\* page_index = bookmark['page']
PageIndex(bookmark) == bookmark.page

\* 0 <= page_index < len(reader.pages)
InPdf(page_index, page_count) == 0 <= page_index /\ page_index < page_count

\* the loop left at the first bookmark out of range
BookmarkOutline_mut(bks, page_count) ==
    LET bad  == {k \in 1..Len(bks) : ~InPdf(PageIndex(bks[k]), page_count)}
        stop == IF bad = {} THEN Len(bks)
                ELSE (CHOOSE k \in bad : \A j \in bad : k <= j) - 1
    IN  [k \in 1..stop |-> OutlineItem(bks[k].title, PageIndex(bks[k]))]

\* the loop over the bookmarks: an entry for each one in range
BookmarkOutline(bks, page_count) ==
    LET kept == SelectSeq(bks, LAMBDA b : InPdf(PageIndex(b), page_count))
    IN  [k \in 1..Len(kept) |-> OutlineItem(kept[k].title, PageIndex(kept[k]))]

\* the writer after the calls of a run that got as far as `outline`
WriterOf(pdf_file, outline, success) ==
    [success |-> success,
     pages |-> ReaderPages(pdf_file),
     outline |-> outline,
     calls |-> [i \in 1..pdf_file.pages |-> "add_page"]
                  \o [i \in 1..Len(outline) |-> "add_outline_item"],
     saved |-> success]

\* add_bookmarks_to_pdf(pdf_file, bookmarks, ...).  strict: whether the
\* installed PyPDF2 raises for an outline entry whose page_number is not a
\* page of the writer (it does or does not, by version); the exception ends
\* the call with False and nothing saved.
AddBookmarksToPdf(pdf_file, bks, strict) ==
    IF ~pdf_file.exists \/ bks = <<>> \/ ~pdf_file.valid
    THEN NoWriter
    ELSE IF strict /\ pdf_file.pages < 1
    THEN WriterOf(pdf_file, <<>>, FALSE)
    ELSE IF strict /\ pdf_file.pages < 2
    THEN WriterOf(pdf_file, <<CoverItem>>, FALSE)
    ELSE WriterOf(pdf_file,
                  <<CoverItem, TocItem>> \o BookmarkOutline(bks, pdf_file.pages),
                  TRUE)

(***************************************************************************)
(* toc_parser.main and add_bookmarks.main, one action per call.            *)
(***************************************************************************)
SamplePageMap == (<<"A", "1">> :> 4) @@ (<<"B">> :> 0) @@ (<<"A">> :> 11)

\* the command lines: [--test] [--page-map JSON]
ArgsSet ==
    {[test |-> FALSE, page_map |-> NoPageMap],
     [test |-> FALSE, page_map |-> PageMapOf(<<>>)],
     [test |-> FALSE, page_map |-> PageMapOf(SamplePageMap)],
     [test |-> TRUE,  page_map |-> PageMapOf(SamplePageMap)]}

NoResult == [hierarchical |-> <<>>, flat |-> <<>>, total_items |-> 0]

NoValidation ==
    [valid_files |-> <<>>, missing_files |-> <<>>, total_valid |-> 0, total_missing |-> 0]

NoStructureValidation ==
    [warnings |-> <<>>, errors |-> <<>>, total_warnings |-> 0, total_errors |-> 0]

NoFile == [written |-> FALSE, name |-> "", text |-> <<>>]

Init ==
    /\ pc = "start"
    /\ args \in ArgsSet
    /\ dom \in Doms
    /\ fs \in {Snapshot(ParseHierarchicalStructure(dom.main_ul), v) : v \in FsVariants}
    /\ result = NoResult
    /\ validation = NoValidation
    /\ structure_validation = NoStructureValidation
    /\ gen_toc = <<>>
    /\ bookmarks_file = NoFile
    /\ exit_code = -1
    /\ bookmarks = <<>>
    /\ pdf = NoPdf
    /\ writer = NoWriter

\* toc_parser.parse_from_file(index_html_path); FileNotFoundError and
\* parse_toc's ValueError reach main's except clause: sys.exit(1)
ParseFromFile ==
    /\ pc = "start"
    /\ IF dom.readable /\ dom.hasMenu /\ dom.hasList
       THEN /\ result' = ParseToc(dom)
            /\ pc' = "parsed"
            /\ UNCHANGED exit_code
       ELSE /\ pc' = "failed"
            /\ exit_code' = 1
            /\ UNCHANGED result
    /\ UNCHANGED <<args, dom, fs, validation, structure_validation, gen_toc,
                   bookmarks_file, bookmarks>>
    /\ UNCHANGED <<pdf, writer>>

\* validation = toc_parser.validate_toc_files(result['flat'], src)
ValidateFiles ==
    /\ pc = "parsed"
    /\ validation' = ValidateTocFiles(result.flat, fs)
    /\ pc' = "files_checked"
    /\ UNCHANGED <<args, dom, fs, result, structure_validation, gen_toc,
                   bookmarks_file, exit_code, bookmarks>>
    /\ UNCHANGED <<pdf, writer>>

\* structure_validation = toc_parser.validate_directory_structure(
\*     result['hierarchical'], src)
ValidateStructure ==
    /\ pc = "files_checked"
    /\ \E seed \in HashSeeds :
          structure_validation' =
              ValidateDirectoryStructure(result.hierarchical, fs, 1, seed)
    /\ pc' = "structure_checked"
    /\ UNCHANGED <<args, dom, fs, result, validation, gen_toc, bookmarks_file,
                   exit_code, bookmarks>>
    /\ UNCHANGED <<pdf, writer>>

\* the summary printed next: max(item["level"] for item in result["flat"])
\* raises ValueError on an empty list, which main's except clause turns
\* into sys.exit(1)
PrintSummary ==
    /\ pc = "structure_checked"
    /\ IF result.flat = <<>>
       THEN /\ pc' = "failed"
            /\ exit_code' = 1
       ELSE /\ pc' = "summarised"
            /\ UNCHANGED exit_code
    /\ UNCHANGED <<args, dom, fs, result, validation, structure_validation,
                   gen_toc, bookmarks_file, bookmarks>>
    /\ UNCHANGED <<pdf, writer>>

\* the condition main writes the bookmark file under
GateOpen(sv, v) == sv.total_errors = 0 /\ v.total_missing = 0

\* --test: the first main chapter and its direct subsections
FirstChapter(flat) ==
    LET tops == {i \in 1..Len(flat) : ~HasChar(flat[i].display_index, ".")}
    IN  IF tops = {} THEN <<>>
        ELSE flat[CHOOSE i \in tops : \A j \in tops : i <= j].display_index

FilteredToc(flat) ==
    LET first_chapter == FirstChapter(flat)
    IN  IF first_chapter # <<>>
        THEN SelectSeq(flat, LAMBDA item :
                \/ item.display_index = first_chapter
                \/ StartsWith(item.display_index, first_chapter \o <<".">>))
        ELSE SubSeq(flat, 1, IF Len(flat) < 4 THEN Len(flat) ELSE 4)

\* the branch of main that writes the bookmark file
GenerateBookmarks ==
    /\ pc = "summarised"
    /\ GateOpen(structure_validation, validation)
    /\ IF args.test
       THEN IF result.flat # <<>>
            THEN /\ gen_toc' = FilteredToc(result.flat)
                 /\ bookmarks_file' =
                        [written |-> TRUE, name |-> "output/test_bookmarks.txt",
                         text |-> GenerateBookmarksFile(FilteredToc(result.flat),
                                                        args.page_map)]
            ELSE UNCHANGED <<gen_toc, bookmarks_file>>
       ELSE /\ gen_toc' = result.flat
            /\ bookmarks_file' =
                   [written |-> TRUE, name |-> "output/bookmarks.txt",
                    text |-> GenerateBookmarksFile(result.flat, args.page_map)]
    /\ pc' = "done"
    /\ exit_code' = 0
    /\ UNCHANGED <<args, dom, fs, result, validation, structure_validation,
                   bookmarks>>
    /\ UNCHANGED <<pdf, writer>>

\* the branch of main that skips it
SkipBookmarks ==
    /\ pc = "summarised"
    /\ ~GateOpen(structure_validation, validation)
    /\ pc' = "done"
    /\ exit_code' = 0
    /\ UNCHANGED <<args, dom, fs, result, validation, structure_validation,
                   gen_toc, bookmarks_file, bookmarks>>
    /\ UNCHANGED <<pdf, writer>>

\* add_bookmarks.main, run on the file toc_parser left: parse_bookmarks
\* returns no bookmark when the file does not exist
InjectorParse ==
    /\ pc \in {"done", "failed"}
    /\ bookmarks' = IF bookmarks_file.written
                    THEN ParseBookmarks(bookmarks_file.text)
                    ELSE <<>>
    /\ pc' = "bookmarks_parsed"
    /\ UNCHANGED <<args, dom, fs, result, validation, structure_validation,
                   gen_toc, bookmarks_file, exit_code>>
    /\ UNCHANGED <<pdf, writer>>

\* add_bookmarks.main: "if not bookmarks: return"
InjectorReturn ==
    /\ pc = "bookmarks_parsed"
    /\ bookmarks = <<>>
    /\ pc' = "injector_done"
    /\ UNCHANGED <<args, dom, fs, result, validation, structure_validation,
                   gen_toc, bookmarks_file, exit_code, bookmarks, pdf, writer>>

\* add_bookmarks.main: success = add_bookmarks_to_pdf(pdf_file, bookmarks, ...)
CallAddBookmarksToPdf ==
    /\ pc = "bookmarks_parsed"
    /\ bookmarks # <<>>
    /\ \E strict \in BOOLEAN :
          writer' = AddBookmarksToPdf(pdf, bookmarks, strict)
    /\ pc' = "injector_done"
    /\ UNCHANGED <<args, dom, fs, result, validation, structure_validation,
                   gen_toc, bookmarks_file, exit_code, bookmarks, pdf>>

Next ==
    \/ ParseFromFile
    \/ ValidateFiles
    \/ ValidateStructure
    \/ PrintSummary
    \/ GenerateBookmarks
    \/ SkipBookmarks
    \/ InjectorParse
    \/ InjectorReturn

Spec == Init /\ [][Next]_vars

(***************************************************************************)
(* add_bookmarks.py run on its own: the PDF named on the command line and  *)
(* a bookmark file found at the path given there, which toc_parser need    *)
(* not have written.                                                       *)
(***************************************************************************)
\* the PDF files: none, one PyPDF2 cannot read, one of 0..MaxPages pages
PdfFiles ==
    {NoPdf, [exists |-> TRUE, valid |-> FALSE, pages |-> 0]}
        \cup {[exists |-> TRUE, valid |-> TRUE, pages |-> n] : n \in 0..MaxPages}

\* the title of the k-th entry of such a file
MarkTitle(k) == <<Upper[((k - 1) % Len(Upper)) + 1]>>

\* a line in the form the pattern of parse_bookmarks is written for:
\* "1. Title (DI3YE)"
PatternLine(k, page) ==
    Str(k) \o <<".", " ">> \o MarkTitle(k) \o <<" ">> \o PageSuffix(page)

\* the page numbers of the entries of a file: up to MaxMarks of them
MarkPages == UNION {[1..n -> 0..(MaxPages + 1)] : n \in 1..MaxMarks}

\* what generate_bookmarks_file writes for a chapter and its subsection
GeneratedSample ==
    GenerateBookmarksFile(
        FlattenHierarchy(ParseHierarchicalStructure(<<ChapterLi(1, 1)>>)),
        NoPageMap)

BookmarkFiles ==
    {NoFile,
     [written |-> TRUE, name |-> "output/bookmarks.txt", text |-> GeneratedSample]}
        \cup {[written |-> TRUE, name |-> "output/bookmarks.txt",
               text |-> JoinWith(NL, [k \in 1..Len(ps) |-> PatternLine(k, ps[k])])]
                 : ps \in MarkPages}

InitInjector ==
    /\ pc = "failed"
    /\ args = [test |-> FALSE, page_map |-> NoPageMap]
    /\ dom = Dom(FALSE, FALSE, FALSE, <<>>)
    /\ fs = FsOf({})
    /\ result = NoResult
    /\ validation = NoValidation
    /\ structure_validation = NoStructureValidation
    /\ gen_toc = <<>>
    /\ bookmarks_file \in BookmarkFiles
    /\ exit_code = 1
    /\ bookmarks = <<>>
    /\ pdf \in PdfFiles
    /\ writer = NoWriter

NextInjector ==
    \/ InjectorParse
    \/ InjectorReturn
    \/ CallAddBookmarksToPdf

SpecInjector == InitInjector /\ [][NextInjector]_vars

(***************************************************************************)
(* Vocabulary of the properties.                                           *)
(***************************************************************************)
\* parse_toc returned: result holds the tree and the flat list
Parsed == dom.readable /\ dom.hasMenu /\ dom.hasList /\ pc # "start"

\* validate_directory_structure returned
StructureValidated == Parsed /\ pc \notin {"parsed", "files_checked"}

RECURSIVE TwoLevelPreorder(_)
\* each top-level node followed by its direct children, in document order
TwoLevelPreorder(tree) ==
    IF tree = <<>> THEN <<>>
    ELSE <<Head(tree)>> \o Head(tree).children \o TwoLevelPreorder(Tail(tree))

RECURSIVE DottedNumbering(_, _)
\* "k" for the k-th top-level node, "k.j" for its j-th child
DottedNumbering(tree, k) ==
    IF k > Len(tree) THEN <<>>
    ELSE <<Str(k)>>
            \o [j \in 1..Len(tree[k].children) |-> Str(k) \o <<".">> \o Str(j)]
            \o DottedNumbering(tree, k + 1)

RECURSIVE SplitLines(_)
\* the lines of a text
SplitLines(t) ==
    IF ~HasChar(t, "\n") THEN <<t>>
    ELSE <<SubSeq(t, 1, (CHOOSE i \in 1..Len(t) : t[i] = "\n" /\ \A j \in 1..(i - 1) : t[j] # "\n") - 1)>>
            \o SplitLines(SubSeq(t, (CHOOSE i \in 1..Len(t) : t[i] = "\n" /\ \A j \in 1..(i - 1) : t[j] # "\n") + 1, Len(t)))

\* the page an entry is to be rendered with, under the run's page map
RenderedPage(item) ==
    IF args.page_map.present /\ item.title \in DOMAIN args.page_map.map
    THEN args.page_map.map[item.title] + 1
    ELSE item.index + 2

\* "(DI<page>YE)"
RenderedSuffix(item) == <<"(", "DI">> \o Str(RenderedPage(item)) \o <<"YE", ")">>

\* the line of an entry as the bookmark format prescribes it
PrescribedLine(item) ==
    IF HasChar(item.display_index, ".")
    THEN [n \in 1..(4 * CountChar(item.display_index, ".")) |-> " "]
            \o item.display_index \o <<" ">> \o item.title \o RenderedSuffix(item)
    ELSE item.display_index \o <<".">> \o item.title \o RenderedSuffix(item)

(***************************************************************************)
(* C1..C5: the flattener and the bookmark text generator.                  *)
(***************************************************************************)
\* C1: the 'index' values of the flat list, in list order, are 1, 2, ..., N,
\* and the list is the pre-order traversal of the tree: each top-level node
\* immediately followed by its direct children in document order.
C1_SequentialIndex ==
    /\ Len(result.flat) = Len(TwoLevelPreorder(result.hierarchical))
    /\ \A i \in 1..Len(result.flat) :
          /\ result.flat[i].index = i
          /\ result.flat[i].href = TwoLevelPreorder(result.hierarchical)[i].href
          /\ result.flat[i].title = TwoLevelPreorder(result.hierarchical)[i].title

\* a flat list in which a chapter follows the subsections of the chapter
\* before it
C1_Witness ==
    /\ Parsed
    /\ \E i \in 2..(Len(result.flat) - 1) :
          /\ HasChar(result.flat[i].display_index, ".")
          /\ ~HasChar(result.flat[i + 1].display_index, ".")

\* C2: the k-th top-level entry has display_index "k", the j-th child of that
\* node has display_index "k.j"; the top-level counter advances once per
\* top-level node, however many children were emitted.
C2_DisplayIndex ==
    [i \in 1..Len(result.flat) |-> result.flat[i].display_index]
        = DottedNumbering(result.hierarchical, 1)

\* the second chapter's second subsection, after a first chapter with
\* subsections of its own
C2_Witness ==
    /\ Parsed
    /\ Len(result.hierarchical) >= 2
    /\ Len(result.hierarchical[1].children) >= 2
    /\ \E i \in 1..Len(result.flat) : result.flat[i].display_index = <<"2", ".", "2">>

\* C3: in the flat list parse_toc produces, every top-level entry has level 1
\* and every child entry (display_index with a dot) has level 2.
C3_Levels ==
    \A i \in 1..Len(result.flat) :
        result.flat[i].level =
            IF HasChar(result.flat[i].display_index, ".") THEN 2 ELSE 1

\* C4: the page number written for an entry is pageMap[title] + 1 when the
\* title is a key of the page map, and sequentialIndex + 2 otherwise (also
\* when the page map is absent or empty).
C4_PageResolution ==
    bookmarks_file.written =>
        \A i \in 1..Len(gen_toc) :
            EndsWith(SplitLines(bookmarks_file.text)[i], RenderedSuffix(gen_toc[i]))

\* a written file with one entry the page map resolves and one it does not
C4_Witness ==
    /\ bookmarks_file.written
    /\ args.page_map.present
    /\ \E i, j \in 1..Len(gen_toc) :
          /\ gen_toc[i].title \in DOMAIN args.page_map.map
          /\ gen_toc[j].title \notin DOMAIN args.page_map.map

\* C5: the file holds exactly one line per flat entry, in flat-list order,
\* newline-joined, with no header, footer or blank line; a top-level line is
\* displayIndex "." title "(DI" page "YE)" unindented, a child's line is four
\* spaces per dot, displayIndex, one space, title, "(DI" page "YE)".
C5_LineFormat ==
    bookmarks_file.written =>
        SplitLines(bookmarks_file.text)
            = [i \in 1..Len(gen_toc) |-> PrescribedLine(gen_toc[i])]

\* a written file with a chapter line and a subsection line
C5_Witness ==
    /\ bookmarks_file.written
    /\ Len(gen_toc) >= 3
    /\ \E i \in 1..Len(gen_toc) : HasChar(gen_toc[i].display_index, ".")

(***************************************************************************)
(* C6..C10: the gate of main, the round trip, the structural validator.    *)
(***************************************************************************)
\* href with the extension stripped, below the source root
StrippedDir(href) == PathJoin(SrcDir, SubSeq(href, 1, Len(href) - Len(DotHtml)))

\* the final path component of href without its extension, directly below
\* the source root
StemDir(href) == PathJoin(SrcDir, PathStem(href))

\* the page files directly in a directory, index.html excluded
PageFilesIn(dir) ==
    {p \in fs.files : /\ PathParent(p) = dir
                      /\ EndsWith(PathName(p), DotHtml)
                      /\ PathName(p) # IndexHtml}

\* the warnings of one type reported for a node
WarningsFor(node, type) ==
    SelectSeq(structure_validation.warnings,
              LAMBDA w : w.type = type /\ w.chapter = node.title)

\* every warning reported for a node
AllWarningsFor(node) ==
    SelectSeq(structure_validation.warnings, LAMBDA w : w.chapter = node.title)

Range(seq) == {seq[i] : i \in 1..Len(seq)}

\* C6: in every run of main the bookmark file is written if and only if the
\* file-existence check found zero missing files and structural validation
\* returned zero errors.
C6_WrittenIffGate ==
    exit_code # -1 =>
        (bookmarks_file.written <=>
            /\ StructureValidated
            /\ validation.total_missing = 0
            /\ structure_validation.total_errors = 0)

\* C7: re-parsing the written text with parse_bookmarks yields one
\* (index, title, page) triple per written line, in order, with the entry's
\* title and rendered page.
C7_RoundTrip ==
    (pc = "bookmarks_parsed" /\ bookmarks_file.written) =>
        /\ Len(bookmarks) = Len(gen_toc)
        /\ \A i \in 1..Len(gen_toc) :
              i <= Len(bookmarks) =>
                  /\ bookmarks[i].title = gen_toc[i].title
                  /\ bookmarks[i].page = RenderedPage(gen_toc[i])

\* the file names on disk in a node's directory that no child of the node
\* references
Unreferenced(node, dir) ==
    {PathName(p) : p \in PageFilesIn(dir)}
        \ {PathName(node.children[j].href) : j \in 1..Len(node.children)}

\* C8: for each top-level node whose expected subdirectory exists, a
\* missing_in_html warning is emitted if and only if the on-disk page-file
\* names minus the file names the node's children reference is non-empty,
\* and the warning lists exactly that difference.
C8_MissingInHtml ==
    StructureValidated =>
        \A k \in 1..Len(result.hierarchical) :
            IsDir(fs, StemDir(result.hierarchical[k].href)) =>
                /\ WarningsFor(result.hierarchical[k], "missing_in_html") # <<>>
                      <=> Unreferenced(result.hierarchical[k],
                                       StemDir(result.hierarchical[k].href)) # {}
                /\ \A w \in Range(WarningsFor(result.hierarchical[k], "missing_in_html")) :
                      Range(w.missing_files)
                          = Unreferenced(result.hierarchical[k],
                                         StemDir(result.hierarchical[k].href))

\* the rule of C9 for one node and the directory taken as its expected
\* subdirectory: exactly one mismatch_count warning with both counts iff the
\* counts differ; nothing at all when the directory does not exist
MismatchRule(node, dir) ==
    IF IsDir(fs, dir)
    THEN /\ Len(WarningsFor(node, "mismatch_count"))
                = IF Len(node.children) # Cardinality(PageFilesIn(dir)) THEN 1 ELSE 0
         /\ \A w \in Range(WarningsFor(node, "mismatch_count")) :
                /\ w.html_count = Len(node.children)
                /\ w.dir_count = Cardinality(PageFilesIn(dir))
    ELSE AllWarningsFor(node) = <<>>

\* C9 as stated: the expected subdirectory is href with the extension
\* stripped.
C9_Original ==
    StructureValidated =>
        \A k \in 1..Len(result.hierarchical) :
            MismatchRule(result.hierarchical[k],
                         StrippedDir(result.hierarchical[k].href))

\* C9 (amended): for each top-level node whose expected subdirectory, the
\* final path component of href without its extension taken directly below
\* the source directory, exists as a directory, exactly one mismatch_count
\* warning with html_count = number of children and dir_count = number of
\* page files in it (index.html excluded) is emitted iff the counts differ;
\* when it does not exist, nothing is emitted for the node.
C9_MismatchCount ==
    StructureValidated =>
        \A k \in 1..Len(result.hierarchical) :
            MismatchRule(result.hierarchical[k],
                         StemDir(result.hierarchical[k].href))

\* two subsections in the menu, three page files in the chapter's directory
C9_Witness ==
    /\ StructureValidated
    /\ \E w \in Range(structure_validation.warnings) :
          /\ w.type = "mismatch_count"
          /\ w.html_count = 2
          /\ w.dir_count = 3

\* the position of the last warning reported for a node, 0 without one
LastWarningOf(node) ==
    IF AllWarningsFor(node) = <<>> THEN 0
    ELSE CHOOSE i \in 1..Len(structure_validation.warnings) :
            /\ structure_validation.warnings[i].chapter = node.title
            /\ \A j \in (i + 1)..Len(structure_validation.warnings) :
                  structure_validation.warnings[j].chapter # node.title

\* C10: the subdirectory checks apply to each child node's own children as
\* to top-level nodes: a child that has children and whose expected
\* subdirectory exists with a different number of page files produces a
\* mismatch_count warning, after its parent's warnings.
C10_ChildrenChecked ==
    StructureValidated =>
        \A k \in 1..Len(result.hierarchical) :
            \A c \in Range(result.hierarchical[k].children) :
                (/\ c.children # <<>>
                 /\ IsDir(fs, StrippedDir(c.href))
                 /\ Cardinality(PageFilesIn(StrippedDir(c.href))) # Len(c.children))
                    => \E i \in 1..Len(structure_validation.warnings) :
                          /\ structure_validation.warnings[i].type = "mismatch_count"
                          /\ structure_validation.warnings[i].chapter = c.title
                          /\ i > LastWarningOf(result.hierarchical[k])

(***************************************************************************)
(* C11..C13, C15: errors of the validator, the exit status of main, the    *)
(* depth of the extracted tree, the determinism of the validator.          *)
(***************************************************************************)
\* C11: validate_directory_structure returns with an empty errors list
\* (total_errors = 0) for every tree and every directory snapshot: every
\* structural finding is a warning, so structural validation by itself never
\* blocks bookmark generation (a run that ends normally with no missing file
\* has written the bookmark file, whatever the warnings).
C11_NoStructuralErrors ==
    StructureValidated =>
        /\ structure_validation.errors = <<>>
        /\ structure_validation.total_errors = 0
        /\ (exit_code = 0 /\ validation.total_missing = 0)
              => bookmarks_file.written

\* a validation with several findings, and the bookmark file written
C11_Witness ==
    /\ StructureValidated
    /\ structure_validation.total_warnings >= 2
    /\ bookmarks_file.written

\* C12: whenever the navigation source is readable and holds the menu
\* container and its list, main does not exit with a non-zero status, for
\* every extracted tree (also one with zero navigation items) and every
\* combination of warnings and missing files.
C12_ExitStatus ==
    (dom.readable /\ dom.hasMenu /\ dom.hasList) => exit_code # 1

\* the <li> elements of a list that the extractor takes as navigation items
NavItems(ul) ==
    SelectSeq(ul, LAMBDA li : li.hasA /\ EndsWith(li.href, DotHtml) /\ li.hasSpan)

\* C13 as stated: the extracted tree is at most two levels deep: no node
\* among a top-level node's children has children of its own, and is_folder
\* is false for every second-level node.
C13_Original ==
    Parsed =>
        \A k \in 1..Len(result.hierarchical) :
            \A c \in Range(result.hierarchical[k].children) :
                c.children = <<>> /\ ~c.is_folder

\* C13 (amended): the extractor follows nested lists at every depth, not one
\* level only: a second-level node has one child per navigation item of the
\* nested list of its own <li>, and is_folder is true exactly when it has
\* such a child; it is the flat list that stops at the second level.
C13_TreeDepth ==
    Parsed =>
        /\ Len(result.hierarchical) = Len(NavItems(dom.main_ul))
        /\ \A k \in 1..Len(result.hierarchical) :
              /\ Len(result.hierarchical[k].children)
                    = Len(NavItems(NavItems(dom.main_ul)[k].ul))
              /\ \A j \in 1..Len(result.hierarchical[k].children) :
                    /\ Len(result.hierarchical[k].children[j].children)
                          = Len(NavItems(NavItems(NavItems(dom.main_ul)[k].ul)[j].ul))
                    /\ result.hierarchical[k].children[j].is_folder
                          <=> result.hierarchical[k].children[j].children # <<>>
        /\ Len(result.flat) = Len(TwoLevelPreorder(result.hierarchical))

\* a second-level node with a child of its own
C13_Witness ==
    /\ Parsed
    /\ \E k \in 1..Len(result.hierarchical) :
          \E c \in Range(result.hierarchical[k].children) :
              c.children # <<>> /\ c.is_folder

\* C15: two calls of validate_directory_structure with an identical tree and
\* an identical directory snapshot return identical warnings and errors,
\* including the order of the file names inside each missing_in_html warning
\* and its message: whatever string-hash seed the other call's process runs
\* under, it returns what this run's call returned.
C15_Deterministic ==
    StructureValidated =>
        \A seed \in HashSeeds :
            ValidateDirectoryStructure(result.hierarchical, fs, 1, seed)
                = structure_validation

(***************************************************************************)
(* C14, C16: the outline add_bookmarks_to_pdf builds.                      *)
(***************************************************************************)
\* add_bookmarks_to_pdf returned True
Injected == pc = "injector_done" /\ writer.success

\* the bookmarks the loop made an entry for, in the order of the file
EntryMarks == SelectSeq(bookmarks, LAMBDA b : InPdf(PageIndex(b), pdf.pages))

\* C14: on a successful add_bookmarks_to_pdf call the outline is: the cover
\* at page 0, the table of contents at page 1, then one entry per parsed
\* bookmark in the order of the bookmark file, a bookmark whose page index
\* is out of the PDF's range being skipped without ending the loop; every
\* entry is top-level; and all the original pages are copied, in their
\* original order, before any outline entry is added.
C14_OutlineOrder ==
    Injected =>
        /\ Len(writer.outline) = 2 + Len(EntryMarks)
        /\ writer.outline[1].title = <<"FENG", "MIAN">>
        /\ writer.outline[1].page_number = 0
        /\ writer.outline[2].title = <<"MU", "LU">>
        /\ writer.outline[2].page_number = 1
        /\ \A k \in 1..Len(EntryMarks) :
              writer.outline[2 + k].title = EntryMarks[k].title
        /\ \A k \in 1..Len(writer.outline) : writer.outline[k].parent = "None"
        /\ writer.pages = [i \in 1..pdf.pages |-> i - 1]
        /\ Len(writer.calls) = pdf.pages + Len(writer.outline)
        /\ \A i, j \in 1..Len(writer.calls) :
              (writer.calls[i] = "add_page" /\ writer.calls[j] = "add_outline_item")
                  => i < j

\* a successful call on a PDF of several pages whose first bookmark was
\* skipped and whose second bookmark got its entry
C14_Witness ==
    /\ Injected
    /\ pdf.pages >= 2
    /\ Len(bookmarks) = 2
    /\ ~InPdf(PageIndex(bookmarks[1]), pdf.pages)
    /\ Len(writer.outline) = 3
    /\ writer.outline[3].title = bookmarks[2].title

\* the bookmarks whose 1-based page number p names a page of the PDF
MarksOnPages ==
    SelectSeq(bookmarks, LAMBDA b : InPdf(b.page - 1, pdf.pages))

\* C16: for a bookmark whose line carries the 1-based page number p, the
\* outline entry points at the zero-based page index p - 1, and the range
\* check 0 <= index < pageCount is applied to that zero-based index: the
\* entries after the two fixed ones are those of the bookmarks with
\* 0 <= p - 1 < pageCount, each at page index p - 1.
C16_ZeroBasedIndex ==
    Injected =>
        /\ Len(writer.outline) = 2 + Len(MarksOnPages)
        /\ \A k \in 1..Len(MarksOnPages) :
              /\ writer.outline[2 + k].title = MarksOnPages[k].title
              /\ writer.outline[2 + k].page_number = MarksOnPages[k].page - 1

====
